---- MODULE Spec2Model ----
(***************************************************************************)
(* Model of the typed heterogeneous table store of src/src/storage.rs:     *)
(* the Live Cache (entries), the Backing Store (database), the JSON        *)
(* encoding of keys and values, the type-tagged downcast, and the four     *)
(* public operations, plus mutation through the reference returned by      *)
(* borrow_table_entry_mut (as src/src/main.rs does).                       *)
(***************************************************************************)
EXTENDS Integers, Sequences, FiniteSets

VARIABLES
    entries,    \* Storage.entries : TableEntry -> Box<dyn TableValue> (type tag + value)
    database,   \* Storage.database: TableEntry -> Vec<u8> (JSON text)
    ret,        \* the last call: its arguments and what it returned
    lastPut,    \* history: TableEntry -> the typed value [vt, v] of the last put on it, and whether that put replaced one (over)
    dirty,      \* history: entries whose cached value was changed through &mut since their last put
    nputs       \* history: number of put_table_entry calls so far

vars == <<entries, database, ret, lastPut, dirty, nputs>>

(***************************************************************************)
(* Bounds of the model.                                                    *)
(***************************************************************************)
MaxPuts == 2    \* at most this many put_table_entry calls in a run

\* The numeric ids of the TableId handles in use: COUNTER_TABLE_ID and one more.
TableIds == {0, 1}

(***************************************************************************)
(* Key types K and value types V the callers instantiate the generic       *)
(* operations with.  Keys: (), Option<()>, u8, and BTreeMap<(u8, u8), u8>,  *)
(* a Serialize type that serde_json refuses ("key must be a string").      *)
(* Values: u64 (as main's COUNTER_TABLE_ID), Option<()>, and i64 for a     *)
(* handle that reads a table with another V than it was written with.  An  *)
(* Option<()> is 0 (None) or 1 (Some(())); () is 0.  The integers of the   *)
(* model are far below 2^63, so of the range checks of u64 and i64 only    *)
(* the sign is met.  f64 is the V of the second table of callers that use  *)
(* one K and one V per table id: a finite f64 in the model is a whole       *)
(* number n, standing for n.0, and F64Infinity stands for f64::INFINITY.   *)
(***************************************************************************)
PutTypes == {"u64", "optunit"}
ValueTypes == PutTypes \cup {"i64"}

Keys ==
    {[kt |-> "unit", kv |-> 0], [kt |-> "optunit", kv |-> 1], [kt |-> "u8", kv |-> 7]}

\* a BTreeMap<(u8, u8), u8> with one entry
PairMapKey == [kt |-> "pairmap", kv |-> 0]

\* The keys the callers use with each table id: (), the key of main, with
\* both; Some(()) with table 0; the u8 key and the map key with table 1.
KeysOf(id) ==
    IF id = 0 THEN {[kt |-> "unit", kv |-> 0], [kt |-> "optunit", kv |-> 1]}
    ELSE {[kt |-> "unit", kv |-> 0], [kt |-> "u8", kv |-> 7], PairMapKey}

\* f64::INFINITY, apart from every finite value of the model
F64Infinity == 1000

InType(vt, v) ==
    CASE vt = "u64" -> v >= 0
      [] vt = "i64" -> TRUE
      [] vt = "f64" -> TRUE
      [] vt = "optunit" -> v \in {0, 1}

\* the values callers store and assign
SampleValues(vt) ==
    CASE vt = "u64" -> {3, 2}
      [] vt = "i64" -> {0 - 1}
      [] vt = "f64" -> {1, F64Infinity}
      [] vt = "optunit" -> {0, 1}

(***************************************************************************)
(* serde_json text.  A byte string is a sequence of one-character strings. *)
(***************************************************************************)
DigitChars == <<"0", "1", "2", "3", "4", "5", "6", "7", "8", "9">>

RECURSIVE Digits(_)
Digits(n) ==
    IF n < 10 THEN <<DigitChars[n + 1]>>
    ELSE Digits(n \div 10) \o <<DigitChars[(n % 10) + 1]>>

IntToJson(n) == IF n < 0 THEN <<"-">> \o Digits(0 - n) ELSE Digits(n)

JsonNull == <<"n", "u", "l", "l">>

\* serde_json::to_vec(key): [ok, bytes].  None is null, Some(x) is x, () is
\* null; a map whose keys are not strings or numbers is an Err.
ToVec(k) ==
    CASE k.kt = "unit" -> [ok |-> TRUE, bytes |-> JsonNull]
      [] k.kt = "optunit" -> [ok |-> TRUE,
                              bytes |-> IF k.kv = 0 THEN JsonNull   \* None
                                        ELSE JsonNull]              \* Some(()): the () in it
      [] k.kt = "u8" -> [ok |-> TRUE, bytes |-> IntToJson(k.kv)]
      [] OTHER -> [ok |-> FALSE, bytes |-> <<>>]

\* the bytes of a key
KeyToJson(k) == ToVec(k).bytes

\* erased_serialize of a value into a serde_json::Serializer
ValueToJson(vt, v) ==
    CASE vt = "u64" -> IntToJson(v)
      [] vt = "i64" -> IntToJson(v)
      [] vt = "f64" -> IF v = F64Infinity THEN JsonNull       \* non-finite floats are written as null
                       ELSE IntToJson(v) \o <<".", "0">>      \* 1.0
      [] vt = "optunit" -> IF v = 0 THEN JsonNull   \* None
                           ELSE JsonNull             \* Some(()): the () in it

IsDigit(c) == \E i \in 1..10 : DigitChars[i] = c
DigitValue(c) == (CHOOSE i \in 1..10 : DigitChars[i] = c) - 1

RECURSIVE ParseDigits(_, _)
ParseDigits(s, acc) ==
    IF s = <<>> THEN acc
    ELSE ParseDigits(Tail(s), acc * 10 + DigitValue(Head(s)))

AllDigits(s) == Len(s) > 0 /\ \A i \in 1..Len(s) : IsDigit(s[i])

\* serde_json's number parser: [ok, n] for an integer literal
ParseInt(bytes) ==
    IF AllDigits(bytes) THEN [ok |-> TRUE, n |-> ParseDigits(bytes, 0)]
    ELSE IF Len(bytes) > 1 /\ Head(bytes) = "-" /\ AllDigits(Tail(bytes))
         THEN [ok |-> TRUE, n |-> 0 - ParseDigits(Tail(bytes), 0)]
         ELSE [ok |-> FALSE, n |-> 0]

\* serde_json's number parser for f64: an integer literal, or one followed
\* by ".0" (the fractions the model writes); null is not a number.
ParseFloat(bytes) ==
    IF Len(bytes) > 2 /\ SubSeq(bytes, Len(bytes) - 1, Len(bytes)) = <<".", "0">>
    THEN ParseInt(SubSeq(bytes, 1, Len(bytes) - 2))
    ELSE ParseInt(bytes)

\* V::deserialize(&mut serde_json::Deserializer::from_slice(bytes)) : [ok, v]
\* An integer literal outside the range of V is an invalid value.  For
\* Option<()>, null is None and anything else must be a (), which is null.
ValueFromJson(vt, bytes) ==
    IF vt = "optunit"
    THEN [ok |-> bytes = JsonNull, v |-> 0]
    ELSE IF vt = "f64"
    THEN LET p == ParseFloat(bytes)
         IN  IF p.ok THEN [ok |-> TRUE, v |-> p.n] ELSE [ok |-> FALSE, v |-> 0]
    ELSE LET p == ParseInt(bytes)
         IN  IF p.ok /\ InType(vt, p.n) THEN [ok |-> TRUE, v |-> p.n]
             ELSE [ok |-> FALSE, v |-> 0]

(***************************************************************************)
(* TableEntry and the two maps.                                            *)
(***************************************************************************)
\* struct TableEntry { id, key }: the Entry Key (table numeric id, key bytes)
TableEntry(id, bytes) == [id |-> id, key |-> bytes]

\* from_key that leaves the table id out of the Entry Key
FromKeyNoId(table_id, key) == TableEntry(0, KeyToJson(key))

\* from_key that puts the type of the key in front of its bytes
FromKeyTyped(table_id, key) == TableEntry(table_id, <<key.kt>> \o KeyToJson(key))

FromKey(table_id, key) == TableEntry(table_id, KeyToJson(key))

EntryKeys == {TableEntry(i, KeyToJson(k)) : i \in TableIds, k \in Keys}

Insert(map, k, x) == [e \in (DOMAIN map) \cup {k} |-> IF e = k THEN x ELSE map[e]]

EmptyMap == [e \in {} |-> 0]

\* Box::new(value) as Box<dyn TableValue>: the value with its TypeId
BoxValue(vt, v) == [tag |-> vt, v |-> v]

\* dyn TableValue::is::<T>
Is(boxed, vt) == boxed.tag = vt

NoKey == [kt |-> "none", kv |-> 0]

\* The record of a call: op, kind ("Ok", "Err", "Panic"), the arguments (id,
\* key, vt; left out of an answer of contains), the value it returned or
\* stored (val), the boolean of contains (flag), whether the call inserted
\* into the Live Cache from the Backing Store (hydrated), whether a put
\* replaced an entry (replaced), and what the call came after (after): for a
\* successful borrow "put", or "overwrite" when that put replaced an entry,
\* when the call before it was the put of the same table id, key and value
\* type, and "alias" when it was the put of the same table id and value type
\* with another key of the same bytes; for a put "mutate" when the call
\* before it was an assignment through &mut that left this entry changed.
Call(op, id, key, vt, kind, val) ==
    [op |-> op, id |-> id, key |-> key, vt |-> vt, kind |-> kind, val |-> val,
     flag |-> FALSE, hydrated |-> FALSE, replaced |-> FALSE, after |-> "none"]

After(id, key, vt) ==
    IF ret.op = "put" /\ ret.id = id /\ ret.key = key /\ ret.vt = vt
    THEN IF ret.replaced THEN "overwrite" ELSE "put"
    ELSE IF ret.op = "put" /\ ret.id = id /\ ret.vt = vt /\ KeyToJson(ret.key) = KeyToJson(key)
    THEN "alias"
    ELSE "none"

AfterMutation(table_entry) ==
    IF ret.op = "mutate" /\ TableEntry(ret.id, KeyToJson(ret.key)) = table_entry /\ table_entry \in dirty
    THEN "mutate"
    ELSE "none"

\* Storage::new()
Init ==
    /\ entries = EmptyMap
    /\ database = EmptyMap
    /\ ret = Call("new", 0, NoKey, "u64", "Ok", 0)
    /\ lastPut = EmptyMap
    /\ dirty = {}
    /\ nputs = 0

\* A panic unwinds out of the caller: no further call reaches this store.
Running == ret.kind # "Panic"

\* TableEntry::from_key panics in unwrap() on a key that does not serialize,
\* before the call has touched the store.
KeyPanic(op, id, key, vt) ==
    /\ ~ToVec(key).ok
    /\ ret' = Call(op, id, key, vt, "Panic", 0)
    /\ UNCHANGED <<entries, database, lastPut, dirty, nputs>>

\* put that writes the Backing Store and leaves a cached value in place
PutTableEntryStaleCache(id, key, vt, v) ==
    LET table_entry == FromKey(id, key)
    IN  /\ Running
        /\ nputs < MaxPuts
        /\ \/ KeyPanic("put", id, key, vt)
           \/ /\ ToVec(key).ok
              /\ database' = Insert(database, table_entry, ValueToJson(vt, v))
              /\ entries' = IF table_entry \in DOMAIN entries THEN entries
                            ELSE Insert(entries, table_entry, BoxValue(vt, v))
              /\ ret' = [Call("put", id, key, vt, "Ok", v)
                             EXCEPT !.replaced = table_entry \in DOMAIN database,
                                    !.after = AfterMutation(table_entry)]
              /\ lastPut' = Insert(lastPut, table_entry,
                                    [vt |-> vt, v |-> v, over |-> table_entry \in DOMAIN lastPut])
              /\ dirty' = dirty \ {table_entry}
              /\ nputs' = nputs + 1

\* put that rebuilds both maps with the new entry alone
PutTableEntryEvict(id, key, vt, v) ==
    LET table_entry == FromKey(id, key)
    IN  /\ Running
        /\ nputs < MaxPuts
        /\ \/ KeyPanic("put", id, key, vt)
           \/ /\ ToVec(key).ok
              /\ database' = Insert(EmptyMap, table_entry, ValueToJson(vt, v))
              /\ entries' = Insert(EmptyMap, table_entry, BoxValue(vt, v))
              /\ ret' = [Call("put", id, key, vt, "Ok", v)
                             EXCEPT !.replaced = table_entry \in DOMAIN database,
                                    !.after = AfterMutation(table_entry)]
              /\ lastPut' = Insert(lastPut, table_entry,
                                    [vt |-> vt, v |-> v, over |-> table_entry \in DOMAIN lastPut])
              /\ dirty' = dirty \ {table_entry}
              /\ nputs' = nputs + 1

\* put that writes the Live Cache only
PutTableEntryCacheOnly(id, key, vt, v) ==
    LET table_entry == FromKey(id, key)
    IN  /\ Running
        /\ nputs < MaxPuts
        /\ \/ KeyPanic("put", id, key, vt)
           \/ /\ ToVec(key).ok
              /\ database' = database
              /\ entries' = Insert(entries, table_entry, BoxValue(vt, v))
              /\ ret' = [Call("put", id, key, vt, "Ok", v)
                             EXCEPT !.replaced = table_entry \in DOMAIN database,
                                    !.after = AfterMutation(table_entry)]
              /\ lastPut' = Insert(lastPut, table_entry,
                                    [vt |-> vt, v |-> v, over |-> table_entry \in DOMAIN lastPut])
              /\ dirty' = dirty \ {table_entry}
              /\ nputs' = nputs + 1

\* put that leaves the blob of an entry that has one
PutTableEntryStaleBlob(id, key, vt, v) ==
    LET table_entry == FromKey(id, key)
    IN  /\ Running
        /\ nputs < MaxPuts
        /\ \/ KeyPanic("put", id, key, vt)
           \/ /\ ToVec(key).ok
              /\ database' = IF table_entry \in DOMAIN database THEN database
                             ELSE Insert(database, table_entry, ValueToJson(vt, v))
              /\ entries' = Insert(entries, table_entry, BoxValue(vt, v))
              /\ ret' = [Call("put", id, key, vt, "Ok", v)
                             EXCEPT !.replaced = table_entry \in DOMAIN database,
                                    !.after = AfterMutation(table_entry)]
              /\ lastPut' = Insert(lastPut, table_entry,
                                    [vt |-> vt, v |-> v, over |-> table_entry \in DOMAIN lastPut])
              /\ dirty' = dirty \ {table_entry}
              /\ nputs' = nputs + 1

\* Storage::put_table_entry.  The sample values all serialize, so the
\* unwrap() of erased_serialize is passed.
PutTableEntry(id, key, vt, v) ==
    LET table_entry == FromKey(id, key)
        writer == ValueToJson(vt, v)
    IN  /\ Running
        /\ nputs < MaxPuts
        /\ \/ KeyPanic("put", id, key, vt)
           \/ /\ ToVec(key).ok
              /\ database' = Insert(database, table_entry, writer)
              /\ entries' = Insert(entries, table_entry, BoxValue(vt, v))
              /\ ret' = [Call("put", id, key, vt, "Ok", v)
                             EXCEPT !.replaced = table_entry \in DOMAIN database,
                                    !.after = AfterMutation(table_entry)]
              /\ lastPut' = Insert(lastPut, table_entry,
                                    [vt |-> vt, v |-> v, over |-> table_entry \in DOMAIN lastPut])
              /\ dirty' = dirty \ {table_entry}
              /\ nputs' = nputs + 1

\* ensure_cached that deserializes the blob again when the entry is cached
EnsureCachedTableEntryRereading(vt, table_entry) ==
    IF table_entry \notin DOMAIN database
    THEN [ok |-> TRUE, entries |-> entries, hydrated |-> FALSE]
    ELSE LET value == ValueFromJson(vt, database[table_entry])
         IN  IF ~value.ok
             THEN [ok |-> FALSE, entries |-> entries, hydrated |-> FALSE]
             ELSE [ok |-> TRUE,
                   entries |-> Insert(entries, table_entry, BoxValue(vt, value.v)),
                   hydrated |-> table_entry \notin DOMAIN entries]

\* ensure_cached that rebuilds the Live Cache with the hydrated entry alone
EnsureCachedTableEntryEvicting(vt, table_entry) ==
    IF table_entry \in DOMAIN entries
    THEN [ok |-> TRUE, entries |-> entries, hydrated |-> FALSE]
    ELSE IF table_entry \notin DOMAIN database
    THEN [ok |-> TRUE, entries |-> entries, hydrated |-> FALSE]
    ELSE LET value == ValueFromJson(vt, database[table_entry])
         IN  IF ~value.ok
             THEN [ok |-> FALSE, entries |-> entries, hydrated |-> FALSE]
             ELSE [ok |-> TRUE,
                   entries |-> Insert(EmptyMap, table_entry, BoxValue(vt, value.v)),
                   hydrated |-> TRUE]

\* ensure_cached that inserts a default value before it reports the decode error
EnsureCachedTableEntryPoisoning(vt, table_entry) ==
    IF table_entry \in DOMAIN entries
    THEN [ok |-> TRUE, entries |-> entries, hydrated |-> FALSE]
    ELSE IF table_entry \notin DOMAIN database
    THEN [ok |-> TRUE, entries |-> entries, hydrated |-> FALSE]
    ELSE LET value == ValueFromJson(vt, database[table_entry])
         IN  IF ~value.ok
             THEN [ok |-> FALSE,
                   entries |-> Insert(entries, table_entry, BoxValue(vt, 0)),
                   hydrated |-> FALSE]
             ELSE [ok |-> TRUE,
                   entries |-> Insert(entries, table_entry, BoxValue(vt, value.v)),
                   hydrated |-> TRUE]

\* Storage::ensure_cached_table_entry::<V>: [ok, entries, hydrated]
EnsureCachedTableEntry(vt, table_entry) ==
    IF table_entry \in DOMAIN entries
    THEN [ok |-> TRUE, entries |-> entries, hydrated |-> FALSE]
    ELSE IF table_entry \notin DOMAIN database
    THEN [ok |-> TRUE, entries |-> entries, hydrated |-> FALSE]
    ELSE LET value == ValueFromJson(vt, database[table_entry])
         IN  IF ~value.ok
             THEN [ok |-> FALSE, entries |-> entries, hydrated |-> FALSE]
             ELSE [ok |-> TRUE,
                   entries |-> Insert(entries, table_entry, BoxValue(vt, value.v)),
                   hydrated |-> TRUE]

\* dyn TableValue::downcast_ref::<T> / downcast_mut::<T>: [some, v]
Downcast(boxed, vt) ==
    IF Is(boxed, vt) THEN [some |-> TRUE, v |-> boxed.v]
    ELSE [some |-> FALSE, v |-> 0]

\* contains that goes through ensure_cached_table_entry first
ContainsTableEntryHydrating(id, key) ==
    LET table_entry == FromKey(id, key)
        ensured == EnsureCachedTableEntry("u64", table_entry)
    IN  /\ Running
        /\ \/ KeyPanic("contains", id, key, "u64")
           \/ /\ ToVec(key).ok
              /\ entries' = ensured.entries
              /\ ret' = [Call("contains", 0, NoKey, "u64", "Ok", 0)
                             EXCEPT !.flag = table_entry \in DOMAIN database]
              /\ UNCHANGED <<database, lastPut, dirty, nputs>>

\* Storage::contains_table_entry
ContainsTableEntry(id, key) ==
    LET table_entry == FromKey(id, key)
        found == IF table_entry \in DOMAIN entries THEN TRUE
                 ELSE IF table_entry \in DOMAIN database THEN TRUE
                 ELSE FALSE
    IN  /\ Running
        /\ \/ KeyPanic("contains", id, key, "u64")
           \/ /\ ToVec(key).ok
              /\ ret' = [Call("contains", 0, NoKey, "u64", "Ok", 0) EXCEPT !.flag = found]
              /\ UNCHANGED <<entries, database, lastPut, dirty, nputs>>

\* borrow with a "not found" error in the place of the first unwrap()
BorrowedNotFound(op, id, key, vt, ensured) ==
    LET table_entry == FromKey(id, key)
    IN  IF ~ensured.ok THEN Call(op, id, key, vt, "Err", 0)
        ELSE IF table_entry \notin DOMAIN ensured.entries
        THEN Call(op, id, key, vt, "Err", 0)
        ELSE LET r == Downcast(ensured.entries[table_entry], vt)
             IN  IF ~r.some THEN Call(op, id, key, vt, "Panic", 0)
                 ELSE [Call(op, id, key, vt, "Ok", r.v)
                           EXCEPT !.hydrated = ensured.hydrated,
                                  !.after = After(id, key, vt)]

\* borrow with unwrap() in the place of `?`
BorrowedUnwrapping(op, id, key, vt, ensured) ==
    LET table_entry == FromKey(id, key)
    IN  IF ~ensured.ok THEN Call(op, id, key, vt, "Panic", 0)
        ELSE IF table_entry \notin DOMAIN ensured.entries
        THEN Call(op, id, key, vt, "Panic", 0)
        ELSE LET r == Downcast(ensured.entries[table_entry], vt)
             IN  IF ~r.some THEN Call(op, id, key, vt, "Panic", 0)
                 ELSE [Call(op, id, key, vt, "Ok", r.v)
                           EXCEPT !.hydrated = ensured.hydrated,
                                  !.after = After(id, key, vt)]

\* The Result of borrow_table_entry / borrow_table_entry_mut, given what
\* ensure_cached_table_entry returned: Err through `?`, a panic from either
\* unwrap(), or Ok with the downcast value.
Borrowed(op, id, key, vt, ensured) ==
    LET table_entry == FromKey(id, key)
    IN  IF ~ensured.ok THEN Call(op, id, key, vt, "Err", 0)
        ELSE IF table_entry \notin DOMAIN ensured.entries
        THEN Call(op, id, key, vt, "Panic", 0)
        ELSE LET r == Downcast(ensured.entries[table_entry], vt)
             IN  IF ~r.some THEN Call(op, id, key, vt, "Panic", 0)
                 ELSE [Call(op, id, key, vt, "Ok", r.v)
                           EXCEPT !.hydrated = ensured.hydrated,
                                  !.after = After(id, key, vt)]

\* Storage::borrow_table_entry
BorrowTableEntry(id, key, vt) ==
    LET ensured == EnsureCachedTableEntry(vt, FromKey(id, key))
    IN  /\ Running
        /\ \/ KeyPanic("borrow", id, key, vt)
           \/ /\ ToVec(key).ok
              /\ entries' = ensured.entries
              /\ ret' = Borrowed("borrow", id, key, vt, ensured)
              /\ UNCHANGED <<database, lastPut, dirty, nputs>>

\* Storage::borrow_table_entry_mut
BorrowTableEntryMut(id, key, vt) ==
    LET ensured == EnsureCachedTableEntry(vt, FromKey(id, key))
    IN  /\ Running
        /\ \/ KeyPanic("borrow_mut", id, key, vt)
           \/ /\ ToVec(key).ok
              /\ entries' = ensured.entries
              /\ ret' = Borrowed("borrow_mut", id, key, vt, ensured)
              /\ UNCHANGED <<database, lastPut, dirty, nputs>>

\* The caller holds the &mut V of a successful borrow_table_entry_mut (the
\* borrow checker admits no other call on the store while it lives) and
\* assigns through it.
RefHeld == ret.op \in {"borrow_mut", "mutate"} /\ ret.kind = "Ok"

\* `*counter -= 1` of main; any value of V may be assigned
MutateThroughRef(v) ==
    LET table_entry == FromKey(ret.id, ret.key)
    IN  /\ Running
        /\ RefHeld
        /\ entries' = [entries EXCEPT ![table_entry].v = v]
        /\ ret' = Call("mutate", ret.id, ret.key, ret.vt, "Ok", v)
        /\ dirty' = IF v # entries[table_entry].v THEN dirty \cup {table_entry} ELSE dirty
        /\ UNCHANGED <<database, lastPut, nputs>>

\* The Live Cache is dropped and the Backing Store retained (cold start).
ClearCache ==
    /\ Running
    /\ entries # EmptyMap
    /\ entries' = EmptyMap
    /\ ret' = Call("clear", 0, NoKey, "u64", "Ok", 0)
    /\ UNCHANGED <<database, lastPut, dirty, nputs>>

Put == \E id \in TableIds : \E key \in KeysOf(id), vt \in PutTypes :
          \E v \in SampleValues(vt) : PutTableEntry(id, key, vt, v)

Contains == \E id \in TableIds : \E key \in KeysOf(id) : ContainsTableEntry(id, key)

Borrow == \E id \in TableIds : \E key \in KeysOf(id), vt \in ValueTypes : BorrowTableEntry(id, key, vt)

BorrowMut == \E id \in TableIds : \E key \in KeysOf(id), vt \in ValueTypes : BorrowTableEntryMut(id, key, vt)

Mutate == \E v \in SampleValues(ret.vt) : MutateThroughRef(v)

Next ==
    \/ Put
    \/ Contains
    \/ Borrow
    \/ BorrowMut
    \/ Mutate

NextCold ==
    \/ Next
    \/ ClearCache

\* Callers that keep to one K and one V per table id: table 0 is main's
\* COUNTER_TABLE_ID, TableId<(), u64>; table 1 is a TableId<u8, f64>.
TableV(id) == IF id = 0 THEN "u64" ELSE "f64"

TableKeys(id) == IF id = 0 THEN {[kt |-> "unit", kv |-> 0]} ELSE {[kt |-> "u8", kv |-> 7]}

DisciplinedPut ==
    \E id \in TableIds : \E key \in TableKeys(id), v \in SampleValues(TableV(id)) :
        PutTableEntry(id, key, TableV(id), v)

DisciplinedContains ==
    \E id \in TableIds : \E key \in TableKeys(id) : ContainsTableEntry(id, key)

DisciplinedBorrow ==
    \E id \in TableIds : \E key \in TableKeys(id) : BorrowTableEntry(id, key, TableV(id))

DisciplinedBorrowMut ==
    \E id \in TableIds : \E key \in TableKeys(id) : BorrowTableEntryMut(id, key, TableV(id))

NextDisciplined ==
    \/ DisciplinedPut
    \/ DisciplinedContains
    \/ DisciplinedBorrow
    \/ DisciplinedBorrowMut
    \/ Mutate
    \/ ClearCache

\* The public API of Storage, from Storage::new().
Spec == Init /\ [][Next]_vars

\* The public API plus clearing of the Live Cache.
SpecCold == Init /\ [][NextCold]_vars

\* The public API used with one K and one V per table id, plus clearing of
\* the Live Cache.
SpecDisciplined == Init /\ [][NextDisciplined]_vars

(***************************************************************************)
(* Properties.                                                             *)
(***************************************************************************)
Cached(e) == e \in DOMAIN entries
Backed(e) == e \in DOMAIN database
LastEntry == TableEntry(ret.id, KeyToJson(ret.key))     \* the Entry Key of the last call
StepEntry == TableEntry(ret'.id, KeyToJson(ret'.key))   \* the Entry Key of the call of a step
BorrowOk == ret.op = "borrow" /\ ret.kind = "Ok"
BorrowStep == ret'.op = "borrow"
AnyBorrowStep == ret'.op \in {"borrow", "borrow_mut"}

\* C1. Round-trip: put_table_entry(id, k, v) immediately followed by
\* borrow_table_entry(id, &k) returns Ok with v, whatever the store held
\* before the put.
C1_RoundTrip ==
    [][(/\ ret.op = "put"
        /\ ret.kind = "Ok"
        /\ BorrowStep
        /\ ret'.id = ret.id
        /\ ret'.key = ret.key
        /\ ret'.vt = ret.vt)
       => (ret'.kind = "Ok" /\ ret'.val = ret.val)]_vars

\* a borrow right after a put that replaced an entry has returned Ok from
\* the Live Cache
C1_Witness == BorrowOk /\ ret.after = "overwrite" /\ ~ret.hydrated

\* C2. Overwrite: a put on an existing entry replaces the cached value and
\* the blob; the borrow after it yields the second value, warm (right after
\* the put) and cold (the entry absent from the Live Cache).
C2_Overwrite ==
    /\ [][(ret'.op = "put" /\ ret'.kind = "Ok" /\ Backed(StepEntry))
          => /\ entries'[StepEntry] = BoxValue(ret'.vt, ret'.val)
             /\ database'[StepEntry] = ValueToJson(ret'.vt, ret'.val)]_vars
    /\ [][(/\ ret.op = "put"
           /\ ret.kind = "Ok"
           /\ ret.replaced
           /\ BorrowStep
           /\ ret'.id = ret.id
           /\ ret'.key = ret.key
           /\ ret'.vt = ret.vt)
          => (ret'.kind = "Ok" /\ ret'.val = ret.val)]_vars
    /\ [][(/\ BorrowStep
           /\ ~Cached(StepEntry)
           /\ StepEntry \in DOMAIN lastPut
           /\ lastPut[StepEntry].over
           /\ lastPut[StepEntry].vt = ret'.vt)
          => (ret'.kind = "Ok" /\ ret'.val = lastPut[StepEntry].v)]_vars

\* C3. Lazy hydrate: with the entry absent from the Live Cache and present
\* in the Backing Store, borrow_table_entry with the V of the last put
\* returns Ok with the value of that put and leaves the entry cached.
C3_LazyHydrate ==
    [][(/\ BorrowStep
        /\ ~Cached(StepEntry)
        /\ StepEntry \in DOMAIN lastPut
        /\ lastPut[StepEntry].vt = ret'.vt)
       => /\ ret'.kind = "Ok"
          /\ ret'.val = lastPut[StepEntry].v
          /\ StepEntry \in DOMAIN entries'
          /\ entries'[StepEntry] = BoxValue(ret'.vt, lastPut[StepEntry].v)]_vars

\* C4. Mutation non-propagation: assigning through the &mut V leaves the
\* Backing Store as it was, and a cold-cache borrow of an entry mutated since
\* its last put returns the value of that put.
C4_MutationNotPropagated ==
    /\ [][ret'.op = "mutate" => database' = database]_vars
    /\ [][(/\ BorrowStep
           /\ ~Cached(StepEntry)
           /\ StepEntry \in dirty
           /\ lastPut[StepEntry].vt = ret'.vt)
          => (ret'.kind = "Ok" /\ ret'.val = lastPut[StepEntry].v)]_vars

\* every entry other than (id, bytes of key) is the same in both maps
Frame(id, key) ==
    \A e \in EntryKeys :
        (e.id # id \/ e.key # KeyToJson(key))
        => /\ (e \in DOMAIN entries') = Cached(e)
           /\ Cached(e) => entries'[e] = entries[e]
           /\ (e \in DOMAIN database') = Backed(e)
           /\ Backed(e) => database'[e] = database[e]

\* C5. Type isolation: a put or a mutation through &mut on (id1, k1) leaves
\* every entry with another (id, key bytes) pair unchanged in both maps.
C5_TypeIsolation ==
    [][ret'.op \in {"put", "mutate"} => Frame(ret'.id, ret'.key)]_vars

\* after a put or mutation, an entry of another table id with the same key
\* bytes holds another value in both maps
C5_Witness ==
    /\ ret.op \in {"put", "mutate"}
    /\ ret.kind = "Ok"
    /\ Cached(LastEntry)
    /\ \E e \in DOMAIN entries \cap DOMAIN database :
          /\ e.id # ret.id
          /\ e.key = KeyToJson(ret.key)
          /\ entries[e] # entries[LastEntry]
          /\ database[e] # database[LastEntry]

\* C6. contains_table_entry always returns Ok, with true exactly when the
\* Entry Key is in the Live Cache or in the Backing Store.
C6_ContainsIffPresent ==
    [][\A id \in TableIds : \A key \in KeysOf(id) :
          ContainsTableEntry(id, key)
          => LET e == TableEntry(id, KeyToJson(key))
             IN  ret'.kind = "Ok" /\ (ret'.flag <=> (Cached(e) \/ Backed(e)))]_vars

\* C7. contains_table_entry changes neither map; it does not hydrate.
C7_ContainsPure ==
    [][ret'.op = "contains" => (entries' = entries /\ database' = database)]_vars

\* contains has answered true with the Live Cache empty: the entry is in the
\* Backing Store alone, and still is
C7_Witness ==
    /\ ret.op = "contains"
    /\ ret.kind = "Ok"
    /\ ret.flag
    /\ entries = EmptyMap
    /\ database # EmptyMap

\* C8. borrow_table_entry and borrow_table_entry_mut on an Entry Key that is
\* in neither map panic.
C8_MissingEntryPanics ==
    [][(AnyBorrowStep /\ ~Cached(StepEntry) /\ ~Backed(StepEntry))
       => ret'.kind = "Panic"]_vars

\* a borrow_mut of a missing entry, with a key that serializes, has panicked
\* in a store that holds other entries
C8_Witness ==
    /\ ret.op = "borrow_mut"
    /\ ret.kind = "Panic"
    /\ ToVec(ret.key).ok
    /\ ~Cached(LastEntry)
    /\ ~Backed(LastEntry)
    /\ entries # EmptyMap

\* C9. Decode error: with the entry absent from the Live Cache and a blob
\* that does not deserialize as V, borrow and borrow_mut return Err.
C9_DecodeError ==
    [][(/\ AnyBorrowStep
        /\ ~Cached(StepEntry)
        /\ Backed(StepEntry)
        /\ ~ValueFromJson(ret'.vt, database[StepEntry]).ok)
       => ret'.kind = "Err"]_vars

\* a borrow_mut has returned Err on an entry whose blob is in the Backing
\* Store, and the entry is still not cached
C9_Witness ==
    /\ ret.op = "borrow_mut"
    /\ ret.kind = "Err"
    /\ Backed(LastEntry)
    /\ ~Cached(LastEntry)

\* C10. Lifecycle: an Entry Key is in the store exactly when a put wrote it,
\* contains answers accordingly, and an entry that exists goes on existing.
C10_Lifecycle ==
    /\ [](\A e \in EntryKeys : (Cached(e) \/ Backed(e)) <=> e \in DOMAIN lastPut)
    /\ [](DOMAIN entries \subseteq EntryKeys /\ DOMAIN database \subseteq EntryKeys)
    /\ [][\A id \in TableIds : \A key \in KeysOf(id) :
            (ContainsTableEntry(id, key) /\ ret'.kind = "Ok")
            => (ret'.flag <=> TableEntry(id, KeyToJson(key)) \in DOMAIN lastPut)]_vars
    /\ [][\A e \in EntryKeys :
            (Cached(e) \/ Backed(e)) => (e \in DOMAIN entries' \/ e \in DOMAIN database')]_vars

\* contains has answered true after an entry was mutated through &mut and
\* another entry was put
C10_Witness ==
    /\ ret.op = "contains"
    /\ ret.flag
    /\ dirty # {}
    /\ Cardinality(DOMAIN lastPut) > 1

\* C11. Mutation is visible through the Live Cache: the assignment through
\* the &mut V sets the cached value; a borrow or borrow_mut of a cached entry
\* with the V of its type tag returns the cached value, whatever the blob
\* holds; and a cached value stays as it is through every call that is not
\* a put or an assignment on it.  So the borrow after the assignment
\* returns the assigned value: put(0, (), 3), decrement, borrow returns 2.
C11_MutationVisible ==
    /\ [][ret'.op = "mutate"
          => entries'[StepEntry] = BoxValue(ret'.vt, ret'.val)]_vars
    /\ [][(/\ ret.op = "mutate"
           /\ AnyBorrowStep
           /\ ret'.id = ret.id
           /\ ret'.key = ret.key
           /\ ret'.vt = ret.vt)
          => (ret'.kind = "Ok" /\ ret'.val = ret.val)]_vars
    /\ [][(AnyBorrowStep /\ Cached(StepEntry) /\ Is(entries[StepEntry], ret'.vt))
          => (ret'.kind = "Ok" /\ ret'.val = entries[StepEntry].v)]_vars
    /\ [][\A e \in DOMAIN entries :
            (ret'.op \notin {"put", "mutate"} \/ StepEntry # e)
            => (e \in DOMAIN entries' /\ entries'[e] = entries[e])]_vars

\* the scenario of main: table 0, key (), 3 was put and 2 assigned through
\* the &mut; borrow has returned 2 while the blob is still that of 3
C11_Witness ==
    /\ BorrowOk
    /\ ret.id = 0
    /\ ret.key = [kt |-> "unit", kv |-> 0]
    /\ ret.vt = "u64"
    /\ ret.val = 2
    /\ LastEntry \in dirty
    /\ lastPut[LastEntry].v = 3
    /\ database[LastEntry] = IntToJson(3)

\* C12. Under caller discipline (one K and one V per table id), borrow and
\* borrow_mut on an entry that was put return Ok in every reachable state,
\* also after the Live Cache was cleared.
C12_DisciplinedBorrowOk ==
    [][(AnyBorrowStep /\ StepEntry \in DOMAIN lastPut) => ret'.kind = "Ok"]_vars

\* C13. Through the public API alone, the key set of the Live Cache equals
\* the key set of the Backing Store in every reachable state: no entry is
\* in the Backing Store only.
C13_NoBackedOnly == DOMAIN entries = DOMAIN database

\* two entries are in both maps, one of them changed through &mut since it
\* was put, and a borrow has returned
C13_Witness ==
    /\ BorrowOk
    /\ Cardinality(DOMAIN database) = 2
    /\ DOMAIN entries = DOMAIN database
    /\ dirty # {}

\* C14. Write-through on put: right after put_table_entry(id, k, v) the Live
\* Cache holds v for the Entry Key and the Backing Store the serialization
\* of v, also when the cached value had been changed through &mut.
C14_WriteThrough ==
    [][(ret'.op = "put" /\ ret'.kind = "Ok")
       => /\ StepEntry \in DOMAIN entries' \cap DOMAIN database'
          /\ entries'[StepEntry] = BoxValue(ret'.vt, ret'.val)
          /\ database'[StepEntry] = ValueToJson(ret'.vt, ret'.val)
          /\ database'[StepEntry] = ValueToJson(entries'[StepEntry].tag, entries'[StepEntry].v)]_vars

\* a put has written an entry right after an assignment through &mut had
\* left its cached value apart from its blob
C14_Witness ==
    /\ ret.op = "put"
    /\ ret.kind = "Ok"
    /\ ret.after = "mutate"
    /\ ret.replaced
    /\ entries[LastEntry] = BoxValue(ret.vt, ret.val)
    /\ database[LastEntry] = ValueToJson(ret.vt, ret.val)

\* C15. Frame of borrow: borrow_table_entry and borrow_table_entry_mut
\* leave the Backing Store as it is; a call on a cached entry changes
\* nothing; a call on an entry that is not cached either changes nothing or,
\* the entry being in the Backing Store, inserts that Entry Key into the
\* Live Cache and touches no other entry.
C15_BorrowFrame ==
    [][AnyBorrowStep
       => /\ database' = database
          /\ Cached(StepEntry) => entries' = entries
          /\ ~Cached(StepEntry)
             => \/ entries' = entries
                \/ /\ Backed(StepEntry)
                   /\ DOMAIN entries' = DOMAIN entries \cup {StepEntry}
                   /\ \A e \in DOMAIN entries : entries'[e] = entries[e]]_vars

\* borrow_mut has hydrated an entry into a Live Cache that held another one
C15_Witness ==
    /\ ret.op = "borrow_mut"
    /\ ret.kind = "Ok"
    /\ ret.hydrated
    /\ Cardinality(DOMAIN entries) = 2

\* C16. No type confusion: borrow and borrow_mut with a V other than the
\* type of the most recent put on the entry never return Ok; they end in a
\* panic (type tag mismatch) or a decode error.
C16_NoTypeConfusion ==
    [][(/\ AnyBorrowStep
        /\ StepEntry \in DOMAIN lastPut
        /\ lastPut[StepEntry].vt # ret'.vt)
       => ret'.kind \in {"Panic", "Err"}]_vars

\* C17. A failed borrow leaves the store unchanged: a borrow or borrow_mut
\* that ends in a decode error or a panic has modified neither map, and the
\* same call made again after a decode error ends in a decode error again.
C17_FailedBorrowUnchanged ==
    /\ [][(AnyBorrowStep /\ ret'.kind \in {"Err", "Panic"})
          => (entries' = entries /\ database' = database)]_vars
    /\ [][(/\ ret.op \in {"borrow", "borrow_mut"}
           /\ ret.kind = "Err"
           /\ ret'.op = ret.op
           /\ ret'.id = ret.id
           /\ ret'.key = ret.key
           /\ ret'.vt = ret.vt)
          => (ret'.kind = "Err" /\ entries' = entries)]_vars

\* borrow has returned a decode error on an entry that is still out of a
\* Live Cache that holds another entry
C17_Witness ==
    /\ ret.op = "borrow"
    /\ ret.kind = "Err"
    /\ Backed(LastEntry)
    /\ ~Cached(LastEntry)
    /\ entries # EmptyMap

\* C18. Key identity is the encoded bytes: two keys address the same entry
\* of a table exactly when their encodings are the same bytes; after
\* put_table_entry(id, k1, v), borrow_table_entry(id, &k2) returns v and
\* contains_table_entry(id, &k2) true for k2 with the bytes of k1; and the
\* put leaves the entries of keys with other bytes as they were.
C18_KeyIdentity ==
    /\ [](\A id \in TableIds : \A k1 \in Keys, k2 \in Keys :
            (FromKey(id, k1) = FromKey(id, k2)) <=> (KeyToJson(k1) = KeyToJson(k2)))
    /\ [][(/\ ret.op = "put"
           /\ ret.kind = "Ok"
           /\ BorrowStep
           /\ ret'.id = ret.id
           /\ ret'.vt = ret.vt
           /\ ToVec(ret'.key).ok
           /\ KeyToJson(ret'.key) = KeyToJson(ret.key))
          => (ret'.kind = "Ok" /\ ret'.val = ret.val)]_vars
    /\ [][\A id \in TableIds : \A key \in KeysOf(id) :
            (/\ ret.op = "put"
             /\ ret.kind = "Ok"
             /\ ret.id = id
             /\ ToVec(key).ok
             /\ KeyToJson(key) = KeyToJson(ret.key)
             /\ ContainsTableEntry(id, key))
            => (ret'.kind = "Ok" /\ ret'.flag)]_vars
    /\ [][(ret'.op = "put" /\ ret'.kind = "Ok")
          => \A k \in Keys :
                KeyToJson(k) # KeyToJson(ret'.key)
                => LET e == FromKey(ret'.id, k)
                   IN  /\ (e \in DOMAIN entries') = Cached(e)
                       /\ Cached(e) => entries'[e] = entries[e]
                       /\ (e \in DOMAIN database') = Backed(e)
                       /\ Backed(e) => database'[e] = database[e]]_vars

\* borrow with the key Some(()) has returned the value that was put, the
\* call before, with the key () of the same bytes
C18_Witness ==
    /\ BorrowOk
    /\ ret.after = "alias"
    /\ ret.key = [kt |-> "optunit", kv |-> 1]
    /\ lastPut[LastEntry].v = ret.val
    /\ ~ret.hydrated

====
